---- MODULE Spec2Model ----
(***************************************************************************)
(* Model of src/coprocessor/codec/mysql/duration.rs: the MySQL TIME value  *)
(* `Duration` (a bit-packed u64), its literal parser, rounding, checked    *)
(* arithmetic, ordering and wire codec.                                    *)
(*                                                                         *)
(* Representation choices:                                                 *)
(*  - an input literal is a sequence of one-character strings;             *)
(*  - a Duration is a record of its bit-fields, each kept within the width *)
(*    the bitfield gives it (new masks every field as the setters do);     *)
(*  - an i64 quantity of nanoseconds, microseconds or milliseconds is a    *)
(*    record [neg, hi, lo]: sign, whole seconds, and the sub-second rest   *)
(*    in the quantity's own unit.  Zero has neg = FALSE, as an integer     *)
(*    has no negative zero.                                                *)
(***************************************************************************)
EXTENDS Integers, Sequences, FiniteSets, TLC

VARIABLES pc, call, ret, arg, buf, got

vars == <<pc, call, ret, arg, buf, got>>

(***************************************************************************)
(* Program constants                                                       *)
(***************************************************************************)
NANOS_PER_SEC == 1000000000
MICROS_PER_SEC == 1000000
MICRO_WIDTH == 6
SECS_PER_HOUR == 3600
SECS_PER_MINUTE == 60
MAX_HOURS == 838
MAX_MINUTES == 59
MAX_SECONDS == 59
MAX_MICROS == 999999
MAX_FSP == 6

\* super::super::TEN_POW, the table of powers of ten.
TEN_POW(i) == 10 ^ i

\* Result values: Err, or Ok(v).
Err == [ok |-> FALSE]
Ok(v) == [ok |-> TRUE, val |-> v]

\* Option values: None, or Some(v).
None == [some |-> FALSE, v |-> 0]
Some(x) == [some |-> TRUE, v |-> x]
unwrap_or(o, dflt) == IF o.some THEN o.v ELSE dflt

(***************************************************************************)
(* Bounds checker                                                          *)
(***************************************************************************)
\* check_hour letting one hour more through.
check_hour_839(hour) == hour <= MAX_HOURS + 1
check_hour(hour) == hour <= MAX_HOURS
check_minute(minute) == minute <= MAX_MINUTES
check_second(second) == second <= MAX_SECONDS
check_micros(micros) == micros <= MAX_MICROS

\* super::check_fsp: a precision outside 0..=6 is an error.
check_fsp(fsp) == fsp >= 0 /\ fsp <= MAX_FSP

(***************************************************************************)
(* mod parser.  A parser takes the input s and the index i of the next     *)
(* byte and returns [ok, pos, val]: pos is the index after what it         *)
(* consumed.                                                               *)
(***************************************************************************)
PFail == [ok |-> FALSE, pos |-> 0, val |-> 0]
POk(p, v) == [ok |-> TRUE, pos |-> p, val |-> v]

DigitChars == {"0", "1", "2", "3", "4", "5", "6", "7", "8", "9"}
DigitSeq == <<"0", "1", "2", "3", "4", "5", "6", "7", "8", "9">>
IsDigit(c) == c \in DigitChars
IsSpace(c) == c \in {" ", "\t", "\n", "\r"}
DigitVal(c) == (CHOOSE k \in 1..10 : DigitSeq[k] = c) - 1

\* nom digit1: the end of the maximal digit run starting at i (i itself when
\* no digit is there, which is digit1's error).
RECURSIVE digit1(_, _)
digit1(s, i) == IF i <= Len(s) /\ IsDigit(s[i]) THEN digit1(s, i + 1) ELSE i

\* nom multispace0: skips any whitespace.
RECURSIVE multispace0(_, _)
multispace0(s, i) == IF i <= Len(s) /\ IsSpace(s[i]) THEN multispace0(s, i + 1) ELSE i

\* buf_to_int over s[i..j-1]: fold(0, |acc, c| acc * 10 + (c - '0')).
RECURSIVE buf_to_int(_, _, _)
buf_to_int(s, i, j) ==
    IF j <= i THEN 0 ELSE buf_to_int(s, i, j - 1) * 10 + DigitVal(s[j - 1])

read_int(s, i) ==
    LET e == digit1(s, i) IN
    IF e = i THEN PFail
    ELSE IF e - i <= 7 THEN POk(e, buf_to_int(s, i, e))
    ELSE PFail

read_int_with_fsp(s, i, fsp) ==
    LET e == digit1(s, i)
        n == e - i
        len == IF fsp >= n THEN n ELSE fsp + 1
        frac == buf_to_int(s, i, i + len)
    IN  IF n = 0 THEN PFail
        ELSE POk(e, frac * TEN_POW(IF MICRO_WIDTH >= len THEN MICRO_WIDTH - len ELSE 0))

\* The sign: an optional '-', then whitespace, then a digit or '.' must follow.
neg(s, i) ==
    LET has == i <= Len(s) /\ s[i] = "-"
        k == multispace0(s, IF has THEN i + 1 ELSE i)
    IN  IF k <= Len(s) /\ (IsDigit(s[k]) \/ s[k] = ".") THEN POk(k, has) ELSE PFail

\* The day/block value: opt!(read_int then (ws+ &digit | ws* (&'.' | eof))).
day(s, i) ==
    LET r == read_int(s, i)
        k == multispace0(s, r.pos)
    IN  IF ~r.ok THEN POk(i, None)
        ELSE IF k > r.pos /\ k <= Len(s) /\ IsDigit(s[k]) THEN POk(k, Some(r.val))
        ELSE IF k > Len(s) \/ s[k] = "." THEN POk(k, Some(r.val))
        ELSE POk(i, None)

separator(s, i) ==
    LET j == multispace0(s, i)
        has == j <= Len(s) /\ s[j] = ":"
    IN  POk(multispace0(s, IF has THEN j + 1 ELSE j), has)

\* hhmmss, field by field as do_parse! sequences them.
\* hour: opt!(map_res!(read_int, check_hour)).
hour_field(s, i) ==
    LET h == read_int(s, i)
    IN  IF h.ok /\ check_hour(h.val) THEN POk(h.pos, Some(h.val)) ELSE POk(i, None)

\* minute: cond!(has_mintue, map_res!(read_int, check_minute)); an error of the
\* inner parser is the error of cond!.
minute_field(s, sep) ==
    LET m == read_int(s, sep.pos)
    IN  IF ~sep.val THEN POk(sep.pos, None)
        ELSE IF m.ok /\ check_minute(m.val) THEN POk(m.pos, Some(m.val))
        ELSE PFail

\* second: cond!(has_second, map_res!(read_int, check_second)).
second_field(s, sep) ==
    LET sc == read_int(s, sep.pos)
    IN  IF ~sep.val THEN POk(sep.pos, None)
        ELSE IF sc.ok /\ check_second(sc.val) THEN POk(sc.pos, Some(sc.val))
        ELSE PFail

hhmmss_second(hour, m, sc) ==
    IF ~sc.ok THEN PFail ELSE POk(sc.pos, <<hour, m.val, sc.val>>)

hhmmss_minute(s, h, m) ==
    IF ~m.ok THEN PFail ELSE hhmmss_second(h.val, m, second_field(s, separator(s, m.pos)))

hhmmss_hour(s, h) == hhmmss_minute(s, h, minute_field(s, separator(s, h.pos)))

hhmmss(s, i) == hhmmss_hour(s, hour_field(s, i))

fraction(s, i, fsp) ==
    LET j == multispace0(s, i)
        k == IF j <= Len(s) /\ s[j] = "." THEN j + 1 ELSE j
        f == read_int_with_fsp(s, k, fsp)
    IN  IF f.ok THEN POk(multispace0(s, f.pos), Some(f.val))
        ELSE POk(multispace0(s, k), None)

\* parser::parse: ws* neg day hhmmss fraction eof, step by step.
parse_eof(s, n, d, h, f) ==
    IF f.pos <= Len(s) THEN Err
    ELSE Ok([neg |-> n.val, day |-> d.val, hour |-> h.val[1],
             minute |-> h.val[2], second |-> h.val[3], micros |-> f.val])

parse_fraction(s, fsp, n, d, h) ==
    IF ~h.ok THEN Err ELSE parse_eof(s, n, d, h, fraction(s, h.pos, fsp))

parse_hhmmss(s, fsp, n, d) == parse_fraction(s, fsp, n, d, hhmmss(s, d.pos))

parse_day(s, fsp, n) == IF ~n.ok THEN Err ELSE parse_hhmmss(s, fsp, n, day(s, n.pos))

parser_parse(s, fsp) == parse_day(s, fsp, neg(s, multispace0(s, 1)))

(***************************************************************************)
(* The packed value                                                        *)
(***************************************************************************)
\* Duration::new: every setter keeps the low bits that fit its field.
new(n, hours, minutes, secs, micros, fsp) ==
    [neg |-> n, reserved |-> FALSE, hours |-> hours % 16384, minutes |-> minutes % 256,
     secs |-> secs % 256, micros |-> micros % 16777216, fsp |-> fsp % 256]

zero == new(FALSE, 0, 0, 0, 0, 0)

\* round with the digits below fsp cut off instead of rounded half-up.
round_truncating(hours, minutes, secs, micros, fsp) ==
    LET m1 == IF micros < 1000000 THEN micros * 10 ELSE micros
        mask == TEN_POW(MICRO_WIDTH - fsp)
        m2 == IF fsp = MICRO_WIDTH THEN m1 \div 10
              ELSE ((m1 \div mask) \div 10) * mask
    IN  IF check_hour(hours)
        THEN Ok([hours |-> hours, minutes |-> minutes, secs |-> secs, micros |-> m2])
        ELSE Err

\* round: Err, or Ok of the rounded fields.
round(hours, minutes, secs, micros, fsp) ==
    LET m1 == IF micros < 1000000 THEN micros * 10 ELSE micros
        mask == TEN_POW(MICRO_WIDTH - fsp)
        m2 == IF fsp = MICRO_WIDTH THEN (m1 + 5) \div 10
              ELSE ((m1 \div mask + 5) \div 10) * mask
        carry == m2 >= 1000000
        m3 == IF carry THEN m2 - 1000000 ELSE m2
        s1 == IF carry THEN secs + 1 ELSE secs
        sCarry == carry /\ s1 >= 60
        s2 == IF sCarry THEN s1 - 60 ELSE s1
        mi1 == IF sCarry THEN minutes + 1 ELSE minutes
        mCarry == carry /\ mi1 >= 60
        mi2 == IF mCarry THEN mi1 - 60 ELSE mi1
        h1 == IF mCarry THEN hours + 1 ELSE hours
    IN  IF check_hour(h1)
        THEN Ok([hours |-> h1, minutes |-> mi2, secs |-> s2, micros |-> m3])
        ELSE Err

\* An i64 as sign and magnitude, the magnitude split in whole seconds (hi) and the
\* rest (lo); an integer zero carries no sign.
I64(n, hi, lo) == [neg |-> n /\ (hi # 0 \/ lo # 0), hi |-> hi, lo |-> lo]

abs(d) == [d EXCEPT !.neg = FALSE]

is_zero(d) ==
    ~d.reserved /\ d.hours = 0 /\ d.minutes = 0 /\ d.secs = 0 /\ d.micros = 0

\* to_secs: the whole seconds as i32; its sign is d.neg.
to_secs(d) == d.hours * SECS_PER_HOUR + d.minutes * SECS_PER_MINUTE + d.secs

\* The i64 secs * NANOS_PER_SEC + rest, secs and rest signed, as sign and
\* magnitude.
i64_nanos(secs, rest) ==
    LET q == secs + rest \div NANOS_PER_SEC
        r == rest % NANOS_PER_SEC
    IN  IF q >= 0 THEN I64(FALSE, q, r)
        ELSE IF r = 0 THEN I64(TRUE, -q, 0)
        ELSE I64(TRUE, -q - 1, NANOS_PER_SEC - r)

\* to_nanos with `* 1000` read as part of the else branch.
to_nanos_else_scaled(d) ==
    i64_nanos(IF d.neg THEN -to_secs(d) ELSE to_secs(d),
              IF d.neg THEN -d.micros ELSE d.micros * 1000)

\* to_nanos: `secs + if neg { -micros } else { micros } * 1000`, where secs is
\* the signed to_secs() in nanoseconds; the if expression is the left operand
\* of `*`.
to_nanos(d) ==
    i64_nanos(IF d.neg THEN -to_secs(d) ELSE to_secs(d),
              (IF d.neg THEN -d.micros ELSE d.micros) * 1000)

\* `round(..)?` followed by Duration::new on the rounded fields.
rounded_new(n, r, fsp) ==
    IF ~r.ok THEN Err
    ELSE Ok(new(n, r.val.hours, r.val.minutes, r.val.secs, r.val.micros, fsp))

\* from_micros: micros is an i64 in microseconds (lo < MICROS_PER_SEC).
from_micros(micros, fsp) ==
    LET secs == micros.hi
        hours == secs \div SECS_PER_HOUR
        minutes == (secs % SECS_PER_HOUR) \div SECS_PER_MINUTE
    IN  IF ~check_fsp(fsp) THEN Err
        ELSE rounded_new(micros.neg, round(hours, minutes, secs % 60, micros.lo, fsp), fsp)

\* from_nanos: nanos / 1000 truncates toward zero (lo < NANOS_PER_SEC).
from_nanos(nanos, fsp) == from_micros(I64(nanos.neg, nanos.hi, nanos.lo \div 1000), fsp)

\* from_millis: millis * 1000 (lo < 1000).  checked_mul overflows only beyond
\* i64::MAX / 1000 milliseconds, above every magnitude hi can hold here.
from_millis(millis, fsp) == from_micros(I64(millis.neg, millis.hi, millis.lo * 1000), fsp)

\* Duration::parse, after the grammar: no negative zero, then round and new.
parse_round(n, hour, minute, second, micros, fsp) ==
    rounded_new(IF hour = 0 /\ minute = 0 /\ second = 0 /\ micros = 0 THEN FALSE ELSE n,
                round(hour, minute, second, micros, fsp), fsp)

\* parse's day or block with the day added to the hour as it is written.
parse_block_day_as_hour(f, fsp) ==
    LET isBlock == f.day.some /\ ~f.hour.some
        block == f.day.v
        dayv == IF isBlock THEN None ELSE f.day
        hourv == IF isBlock THEN Some(block \div 10000) ELSE f.hour
        minutev == IF isBlock THEN Some((block \div 100) % 100) ELSE f.minute
        secondv == IF isBlock THEN Some(block % 100) ELSE f.second
    IN  parse_round(f.neg, unwrap_or(hourv, 0) + unwrap_or(dayv, 0),
                    unwrap_or(minutev, 0), unwrap_or(secondv, 0),
                    unwrap_or(f.micros, 0), fsp)

\* Duration::parse, the day or block: a day without an hour is a packed block.
parse_block(f, fsp) ==
    LET isBlock == f.day.some /\ ~f.hour.some
        block == f.day.v
        dayv == IF isBlock THEN None ELSE f.day
        hourv == IF isBlock THEN Some(block \div 10000) ELSE f.hour
        minutev == IF isBlock THEN Some((block \div 100) % 100) ELSE f.minute
        secondv == IF isBlock THEN Some(block % 100) ELSE f.second
    IN  parse_round(f.neg, unwrap_or(hourv, 0) + unwrap_or(dayv, 0) * 24,
                    unwrap_or(minutev, 0), unwrap_or(secondv, 0),
                    unwrap_or(f.micros, 0), fsp)

parse_fields(p, fsp) == IF ~p.ok THEN Err ELSE parse_block(p.val, fsp)

\* Duration::parse
parse(input, fsp) ==
    IF Len(input) = 0 THEN Err
    ELSE IF ~check_fsp(fsp) THEN Err
    ELSE parse_fields(parser_parse(input, fsp), fsp)

\* round_frac rounding also when the precision asked for is the present one.
round_frac_strict(d, fsp) ==
    IF ~check_fsp(fsp) THEN Err
    ELSE IF fsp > d.fsp THEN Ok([d EXCEPT !.fsp = fsp])
    ELSE rounded_new(d.neg, round(d.hours, d.minutes, d.secs, d.micros, fsp), fsp)

\* round_frac setting the precision and leaving the microseconds as they are.
round_frac_tag_only(d, fsp) ==
    IF ~check_fsp(fsp) THEN Err
    ELSE Ok([d EXCEPT !.fsp = fsp])

round_frac(d, fsp) ==
    IF ~check_fsp(fsp) THEN Err
    ELSE IF fsp >= d.fsp THEN Ok([d EXCEPT !.fsp = fsp])
    ELSE rounded_new(d.neg, round(d.hours, d.minutes, d.secs, d.micros, fsp), fsp)

\* from_bits with the reserved bit left as it came.
from_bits_keep_reserved(v) ==
    IF ~check_micros(v.micros) THEN Err
    ELSE IF ~check_second(v.secs) THEN Err
    ELSE IF ~check_minute(v.minutes) THEN Err
    ELSE IF ~check_hour(v.hours) THEN Err
    ELSE Ok(v)

\* from_bits: the word v is the record of its bit-fields.
from_bits(v) ==
    IF ~check_micros(v.micros) THEN Err
    ELSE IF ~check_second(v.secs) THEN Err
    ELSE IF ~check_minute(v.minutes) THEN Err
    ELSE IF ~check_hour(v.hours) THEN Err
    ELSE Ok([v EXCEPT !.reserved = FALSE])

maximize_fsp(d) == [d EXCEPT !.fsp = MAX_FSP]

(***************************************************************************)
(* Equality and ordering: the u64 with fsp zeroed.  Every field lies       *)
(* within its width, so comparing the words is comparing the fields from   *)
(* the most significant one down.                                          *)
(***************************************************************************)
BitKey(d) ==
    <<IF d.neg THEN 1 ELSE 0, IF d.reserved THEN 1 ELSE 0,
      d.hours, d.minutes, d.secs, d.micros>>

RECURSIVE CmpFrom(_, _, _)
CmpFrom(x, y, k) ==
    IF k > Len(x) THEN "Equal"
    ELSE IF x[k] < y[k] THEN "Less"
    ELSE IF x[k] > y[k] THEN "Greater"
    ELSE CmpFrom(x, y, k + 1)

reverse(o) == IF o = "Less" THEN "Greater" ELSE IF o = "Greater" THEN "Less" ELSE o

\* eq comparing the words as they are, fsp included.
eq_whole_word(a, b) == a = b

eq(a, b) == BitKey(a) = BitKey(b)

\* partial_cmp comparing the words as unsigned, never reversed.
partial_cmp_unsigned(a, b) == CmpFrom(BitKey(a), BitKey(b), 1)

partial_cmp(a, b) ==
    LET ordering == CmpFrom(BitKey(a), BitKey(b), 1)
    IN  IF a.neg \/ b.neg THEN reverse(ordering) ELSE ordering

\* Ord::cmp
cmp(a, b) == partial_cmp(a, b)

\* Hash::hash: the word the hasher is fed, to_bits() after set_fsp(0).
hash(d) == [d EXCEPT !.fsp = 0]

max(x, y) == IF x >= y THEN x ELSE y

(***************************************************************************)
(* Checked arithmetic: None, or Some(duration).                            *)
(***************************************************************************)
set_neg_true(o) == IF o.some THEN Some([o.v EXCEPT !.neg = TRUE]) ELSE o

\* checked_add's arm with the carry out of the microseconds dropped.
add_magnitudes_no_carry(a, b) ==
    LET m0 == a.micros + b.micros
        mc == m0 >= MICROS_PER_SEC
        micros == IF mc THEN m0 - MICROS_PER_SEC ELSE m0
        s0 == a.secs + b.secs
        sc == s0 >= 60
        secs == IF sc THEN s0 - 60 ELSE s0
        mi0 == a.minutes + b.minutes + (IF sc THEN 1 ELSE 0)
        mic == mi0 >= 60
        minutes == IF mic THEN mi0 - 60 ELSE mi0
        hours == a.hours + b.hours + (IF mic THEN 1 ELSE 0)
    IN  IF check_hour(hours)
        THEN Some(new(FALSE, hours, minutes, secs, micros, max(a.fsp, b.fsp)))
        ELSE None

\* checked_add, the arm of two non-negative operands.
add_magnitudes(a, b) ==
    LET m0 == a.micros + b.micros
        mc == m0 >= MICROS_PER_SEC
        micros == IF mc THEN m0 - MICROS_PER_SEC ELSE m0
        s0 == a.secs + b.secs + (IF mc THEN 1 ELSE 0)
        sc == s0 >= 60
        secs == IF sc THEN s0 - 60 ELSE s0
        mi0 == a.minutes + b.minutes + (IF sc THEN 1 ELSE 0)
        mic == mi0 >= 60
        minutes == IF mic THEN mi0 - 60 ELSE mi0
        hours == a.hours + b.hours + (IF mic THEN 1 ELSE 0)
    IN  IF check_hour(hours)
        THEN Some(new(FALSE, hours, minutes, secs, micros, max(a.fsp, b.fsp)))
        ELSE None

\* checked_sub's arm with the borrow from the minutes not taken off them.
sub_magnitudes_no_borrow(a, b) ==
    LET n == partial_cmp(a, b) = "Less"
        l == IF n THEN b ELSE a
        r == IF n THEN a ELSE b
        m0 == l.micros - r.micros
        mb == m0 < 0
        micros == IF mb THEN m0 + MICROS_PER_SEC ELSE m0
        s0 == l.secs - r.secs - (IF mb THEN 1 ELSE 0)
        sb == s0 < 0
        secs == IF sb THEN s0 + 60 ELSE s0
        mi0 == l.minutes - r.minutes
        mib == mi0 < 0
        minutes == IF mib THEN mi0 + 60 ELSE mi0
        hours == l.hours - r.hours - (IF mib THEN 1 ELSE 0)
    IN  Some(new(n, hours, minutes, secs, micros, max(a.fsp, b.fsp)))

\* checked_sub, the arm of two non-negative operands.
sub_magnitudes(a, b) ==
    LET n == partial_cmp(a, b) = "Less"
        l == IF n THEN b ELSE a
        r == IF n THEN a ELSE b
        m0 == l.micros - r.micros
        mb == m0 < 0
        micros == IF mb THEN m0 + MICROS_PER_SEC ELSE m0
        s0 == l.secs - r.secs - (IF mb THEN 1 ELSE 0)
        sb == s0 < 0
        secs == IF sb THEN s0 + 60 ELSE s0
        mi0 == l.minutes - r.minutes - (IF sb THEN 1 ELSE 0)
        mib == mi0 < 0
        minutes == IF mib THEN mi0 + 60 ELSE mi0
        hours == l.hours - r.hours - (IF mib THEN 1 ELSE 0)
    IN  Some(new(n, hours, minutes, secs, micros, max(a.fsp, b.fsp)))

RECURSIVE checked_add(_, _), checked_sub(_, _)

checked_add(a, b) ==
    IF ~a.neg /\ b.neg THEN checked_sub(a, abs(b))
    ELSE IF a.neg /\ ~b.neg THEN checked_sub(b, abs(a))
    ELSE IF a.neg /\ b.neg THEN set_neg_true(checked_add(abs(a), abs(b)))
    ELSE add_magnitudes(a, b)

checked_sub(a, b) ==
    IF ~a.neg /\ b.neg THEN checked_add(a, abs(b))
    ELSE IF a.neg /\ ~b.neg THEN set_neg_true(checked_add(abs(a), abs(b)))
    ELSE IF a.neg /\ b.neg THEN checked_sub(abs(b), abs(a))
    ELSE sub_magnitudes(a, b)

(***************************************************************************)
(* Wire codec: the pair (nanoseconds, fsp), each an i64.                   *)
(***************************************************************************)
encode_duration(v) == <<to_nanos(v), v.fsp>>

\* `fsp as i8` of the decoded i64.
as_i8(x) == IF (x % 256) >= 128 THEN (x % 256) - 256 ELSE x % 256

decode(data) == from_nanos(data[1], as_i8(data[2]))

(***************************************************************************)
(* Bounds of the model and the inputs drawn within them                    *)
(***************************************************************************)
\* The longest fractional digit string of a literal.
MaxFracLen == 8
\* Hour fields of the operands of checked_add and checked_sub lie within
\* HourEdge of either end of 0..=MAX_HOURS.
HourEdge == 1

Rep(c, n) == [k \in 1..n |-> c]

\* The decimal numeral of n, and the numeral written in at least w digits.
RECURSIVE Numeral(_)
Numeral(n) ==
    IF n < 10 THEN <<DigitSeq[n + 1]>>
    ELSE Append(Numeral(n \div 10), DigitSeq[(n % 10) + 1])
Padded(n, w) ==
    LET d == Numeral(n) IN IF Len(d) >= w THEN d ELSE Rep("0", w - Len(d)) \o d

SP == <<" ">>
COLON == <<":">>
DOT == <<".">>
MINUS == <<"-">>

\* Fractions: zeros, then nines, then nothing or a digit on either side of one
\* half; and the fractions of the repository's tests.
FracStrings ==
    { f \in { Rep("0", z) \o Rep("9", n) \o t :
                z \in 0..MaxFracLen, n \in 0..MaxFracLen, t \in {<<>>, <<"4">>, <<"5">>} } :
        Len(f) >= 1 /\ Len(f) <= MaxFracLen }
    \cup { <<"1", "2", "3", "4", "5", "6">>, <<"1", "2", "3", "4", "5", "6", "5">>,
           <<"7", "7", "7", "7", "7", "7">>, <<"0", "0", "0", "0", "1", "0">>,
           <<"1", "2", "3">>, <<"4", "9">> }

\* What precedes the '.' of a literal with a fraction.
FracPrefixes ==
    { <<>>, <<"0">>, <<"-", "0">>, <<"5", "9">>,
      <<"-", "0", "0", ":", "0", "0", ":", "0", "0">>,
      <<"1", "1", ":", "5", "9", ":", "5", "9">>,
      <<"8", "3", "8", ":", "5", "9", ":", "5", "9">>,
      <<"8", "3", "8", "5", "9", "5", "9">> }

\* Digit runs standing alone: packed HHMMSS blocks, in 1 to 9 digits.
BlockValues ==
    {0, 1, 59, 60, 99, 100, 5959, 5960, 6000, 9999, 10000, 101112,
     8385959, 8386000, 8389999, 8390000, 9999999, 12345678, 99999999}
BlockRuns == { Padded(n, w) : n \in BlockValues, w \in {1, 7, 8} }

\* D ws H[:M[:S]] and H:M[:S].
DayRuns == { Numeral(n) : n \in {0, 1, 34, 35, 9999999} } \cup {Padded(1, 8)}
HourRuns == { Numeral(n) : n \in {0, 22, 23, 838, 839} } \cup {Padded(1, 8)}
FieldRuns == { Numeral(n) : n \in {0, 59, 60} }
ClockTails ==
    {<<>>} \cup { COLON \o m : m \in FieldRuns }
           \cup { COLON \o m \o COLON \o sc : m \in FieldRuns, sc \in FieldRuns \ {<<"0">>} }
DayBodies == { d \o SP \o h \o t : d \in DayRuns, h \in HourRuns, t \in ClockTails }
ClockBodies == { h \o t : h \in HourRuns, t \in ClockTails \ {<<>>} }
OddBodies ==
    { <<"1", ":", ":", "2", ":", "3">>, <<"1", " ", "2", " ", "3">>,
      <<"1", " ", ":", " ", "2", " ", ":", " ", "3">>, <<"1", ":", "2", " ", "5">>,
      <<"1", " ", " ", "1", "2">>, <<"2", "0", "1", "1", "-", "1", "1">> }
Bodies == BlockRuns \cup DayBodies \cup ClockBodies \cup OddBodies

\* Literals every sign and every ending is tried on.
PlainBodies ==
    { <<"0">>, <<"1">>, <<"9", "9", "9", "9">>, <<"1", "2", "3", "4", "5", "6", "7", "8">>,
      <<"1", " ", "1">>, <<"1", " ", "8", "3", "9">>, <<"1", ":", "2", ":", "3">>,
      <<"8", "3", "9", ":", "0", ":", "0">> }
Signs == {<<>>, MINUS, <<"-", " ">>, SP, <<"-", "-">>}
Tails == {<<>>, SP, DOT, <<".", "4">>, <<".", "5">>, <<" ", ".", "5", " ">>, <<"x">>}
EdgeInputs == {<<>>, MINUS, DOT, <<"-", ".">>, <<"1", "2">>}

ParseCall(s, p) == [fn |-> "parse", input |-> s, num |-> I64(FALSE, 0, 0), fsp |-> p]
NumCall(f, n, p) == [fn |-> f, input |-> <<>>, num |-> n, fsp |-> p]

MAX_TIME_IN_SECS == MAX_HOURS * SECS_PER_HOUR + MAX_MINUTES * SECS_PER_MINUTE + MAX_SECONDS

\* Arguments of from_micros, from_nanos and from_millis: whole seconds and the
\* rest below one second, in the unit of the call.
WholeSecs == {0, 1, 59, 3600, MAX_TIME_IN_SECS, MAX_TIME_IN_SECS + 1}
NumFsps == {-1, 0, 3, 6, 7}
SubSecond(f) ==
    IF f = "from_micros" THEN {0, 1, 4, 5, 499999, 500000, 999995, 999999}
    ELSE IF f = "from_nanos" THEN {0, 1, 999, 1000, 499999999, 500000000, 999999499, 999999999}
    ELSE {0, 1, 499, 500, 999}

\* The precisions round_frac is called with.
RoundFsps == -1..(MAX_FSP + 1)

(***************************************************************************)
(* Construction and codec: a call is drawn, the constructor runs, and its  *)
(* value is then rounded to another precision, or encoded and decoded.     *)
(***************************************************************************)
InitParse ==
    \/ \E x \in FracPrefixes, f \in FracStrings, p \in 0..MAX_FSP :
          call = ParseCall(x \o DOT \o f, p)
    \/ \E sg \in {<<>>, MINUS}, b \in Bodies, t \in {<<>>, <<".", "5">>}, p \in {0, MAX_FSP} :
          call = ParseCall(sg \o b \o t, p)
    \/ \E sg \in Signs, b \in PlainBodies, t \in Tails, p \in {0, MAX_FSP} :
          call = ParseCall(sg \o b \o t, p)
    \/ \E s \in EdgeInputs, p \in {-1, 0, MAX_FSP + 1} :
          call = ParseCall(s, p)

InitNum ==
    \E f \in {"from_micros", "from_nanos", "from_millis"}, n \in BOOLEAN,
       h \in WholeSecs, p \in NumFsps :
        \E l \in SubSecond(f) : call = NumCall(f, I64(n, h, l), p)

Init ==
    /\ pc = "start"
    /\ (InitParse \/ InitNum)
    /\ ret = Err
    /\ arg = 0
    /\ buf = <<>>
    /\ got = Err

Parse ==
    /\ pc = "start"
    /\ call.fn = "parse"
    /\ ret' = parse(call.input, call.fsp)
    /\ pc' = "built"
    /\ UNCHANGED <<call, arg, buf, got>>

FromMicros ==
    /\ pc = "start"
    /\ call.fn = "from_micros"
    /\ ret' = from_micros(call.num, call.fsp)
    /\ pc' = "built"
    /\ UNCHANGED <<call, arg, buf, got>>

FromNanos ==
    /\ pc = "start"
    /\ call.fn = "from_nanos"
    /\ ret' = from_nanos(call.num, call.fsp)
    /\ pc' = "built"
    /\ UNCHANGED <<call, arg, buf, got>>

FromMillis ==
    /\ pc = "start"
    /\ call.fn = "from_millis"
    /\ ret' = from_millis(call.num, call.fsp)
    /\ pc' = "built"
    /\ UNCHANGED <<call, arg, buf, got>>

RoundFrac ==
    /\ pc = "built"
    /\ ret.ok
    /\ \E p \in RoundFsps :
          /\ arg' = p
          /\ got' = round_frac(ret.val, p)
    /\ pc' = "rounded"
    /\ UNCHANGED <<call, ret, buf>>

Encode ==
    /\ pc = "built"
    /\ ret.ok
    /\ buf' = encode_duration(ret.val)
    /\ pc' = "encoded"
    /\ UNCHANGED <<call, ret, arg, got>>

Decode ==
    /\ pc = "encoded"
    /\ got' = decode(buf)
    /\ buf' = <<>>
    /\ pc' = "decoded"
    /\ UNCHANGED <<call, ret, arg>>

Next == Parse \/ FromMicros \/ FromNanos \/ FromMillis \/ RoundFrac \/ Encode \/ Decode

Spec == Init /\ [][Next]_vars

(***************************************************************************)
(* What the properties below speak of                                      *)
(***************************************************************************)
Built(f) == pc = "built" /\ call.fn = f
ParsedAt == Built("parse") /\ call.fsp \in 0..MAX_FSP

InRange(d) ==
    d.hours <= 838 /\ d.minutes <= 59 /\ d.secs <= 59 /\ d.micros <= 999999

ZeroMagnitude(d) == d.hours = 0 /\ d.minutes = 0 /\ d.secs = 0 /\ d.micros = 0

\* The value of a digit string.
RECURSIVE DecimalValue(_)
DecimalValue(ds) ==
    IF Len(ds) = 0 THEN 0
    ELSE DecimalValue(SubSeq(ds, 1, Len(ds) - 1)) * 10 + DigitVal(ds[Len(ds)])

AllDigits(ds) == \A k \in 1..Len(ds) : IsDigit(ds[k])
HasDigit(ds) == \E k \in 1..Len(ds) : IsDigit(ds[k])

\* Where the literal's first '.' stands (0 when it has none), what precedes it
\* and the digits that follow it.
DotAt(s) == IF \E k \in 1..Len(s) : s[k] = "." THEN CHOOSE k \in 1..Len(s) : s[k] = "." /\ \A j \in 1..(k - 1) : s[j] # "." ELSE 0
BeforeDot(s) == SubSeq(s, 1, DotAt(s) - 1)
AfterDot(s) == SubSeq(s, DotAt(s) + 1, Len(s))

\* The literal ends in '.' and a fraction, a digit string, after a part that
\* parses by itself or holds no digit at all.
HasFraction(s, p) ==
    /\ DotAt(s) > 0
    /\ Len(AfterDot(s)) >= 1
    /\ AllDigits(AfterDot(s))
    /\ HasDigit(BeforeDot(s)) => parse(BeforeDot(s), p).ok

WholeSecsBeforeDot(s, p) ==
    IF HasDigit(BeforeDot(s)) THEN to_secs(parse(BeforeDot(s), p).val) ELSE 0

\* 0.f rounded half-up to p fractional digits, in microseconds (0..1000000):
\* the first p digits of f, one more when the digit after them is 5 or above.
RoundHalfUp(f, p) ==
    LET kept == IF Len(f) >= p THEN p ELSE Len(f)
        head == DecimalValue(SubSeq(f, 1, kept)) * (10 ^ (p - kept))
        up == IF Len(f) > p /\ DigitVal(f[p + 1]) >= 5 THEN 1 ELSE 0
    IN  (head + up) * (10 ^ (6 - p))

\* Where the first numeric token of the literal starts: after whitespace, an
\* optional '-' and whitespace.
FirstTokenAt(s) ==
    LET i == multispace0(s, 1)
    IN  multispace0(s, IF i <= Len(s) /\ s[i] = "-" THEN i + 1 ELSE i)
FirstTokenLen(s) == digit1(s, FirstTokenAt(s)) - FirstTokenAt(s)

\* The digit run of s that starts at i, as a number.
RunStartsAt(s, i) == i >= 1 /\ i <= Len(s) /\ IsDigit(s[i]) /\ (i = 1 \/ ~IsDigit(s[i - 1]))
RunValue(s, i) == DecimalValue(SubSeq(s, i, digit1(s, i) - 1))

\* An hour written before a ':' and above 838.
HourBeforeColonTooBig(s) ==
    \E i \in 1..Len(s) :
        /\ RunStartsAt(s, i)
        /\ digit1(s, i) <= Len(s)
        /\ s[digit1(s, i)] = ":"
        /\ RunValue(s, i) > 838

\* An hour written after a day and whitespace, and above 838.
HourAfterDayTooBig(s) ==
    LET d == FirstTokenAt(s)
        e == digit1(s, d)
        h == multispace0(s, e)
    IN  e > d /\ h > e /\ RunStartsAt(s, h) /\ RunValue(s, h) > 838

\* A minute or second written after a ':' and above 59.
FieldAfterColonTooBig(s) ==
    \E i \in 2..Len(s) : RunStartsAt(s, i) /\ s[i - 1] = ":" /\ RunValue(s, i) > 59

(***************************************************************************)
(* Properties of construction and codec                                    *)
(***************************************************************************)
\* C1: every Duration that parse returns, for a precision 0..=6, has hours <= 838,
\* minutes <= 59, seconds <= 59 and microseconds <= 999_999; an input whose
\* fields would break a bound yields an error instead.
C1_ParseInRange == (ParsedAt /\ ret.ok) => InRange(ret.val)

\* C2: no negative zero: a Duration of zero magnitude returned by parse,
\* from_micros, from_nanos, from_millis or round_frac has neg = false and
\* equals Duration::zero().
C2_NoNegativeZero ==
    /\ (pc = "built" /\ ret.ok /\ ZeroMagnitude(ret.val))
          => (~ret.val.neg /\ eq(ret.val, zero))
    /\ (pc = "rounded" /\ got.ok /\ ZeroMagnitude(got.val))
          => (~got.val.neg /\ eq(got.val, zero))

\* C3: codec round trip: for every Duration d returned by parse or from_nanos,
\* decoding what encode_duration wrote succeeds and yields a value equal to d,
\* the precision ignored.
C3_CodecRoundTrip ==
    (pc = "decoded" /\ call.fn \in {"parse", "from_nanos"})
        => (got.ok /\ eq(got.val, ret.val))

\* C4: a literal whose fraction is the digit string f, parsed at precision p,
\* has as sub-second value 0.f rounded half-up to p digits, in microseconds, a
\* rounded 1_000_000 being one more second.
C4_FractionRoundsHalfUp ==
    (ParsedAt /\ ret.ok /\ HasFraction(call.input, call.fsp))
        => LET e == RoundHalfUp(AfterDot(call.input), call.fsp)
           IN  /\ ret.val.micros = e % 1000000
               /\ to_secs(ret.val) = WholeSecsBeforeDot(call.input, call.fsp) + e \div 1000000

\* C5: a literal whose first numeric token is a run of more than 7 digits is an
\* error at every precision 0..=6.
C5_OverLengthRejected == (ParsedAt /\ FirstTokenLen(call.input) > 7) => ~ret.ok

\* C6: a literal with a written hour above 838 (after a day and whitespace, or
\* before a ':') or a written minute or second above 59 (after a ':') is an
\* error.
C6_FieldRangeRejected ==
    (ParsedAt /\ (HourBeforeColonTooBig(call.input) \/ HourAfterDayTooBig(call.input)
                    \/ FieldAfterColonTooBig(call.input)))
        => ~ret.ok

(***************************************************************************)
(* The two literal forms of the day/block disambiguation                   *)
(***************************************************************************)
AtEnd(s, i) == i = Len(s) + 1

\* A single digit run of at most 7 digits, alone or followed by '.' and digits.
BlockForm(s) ==
    LET e == digit1(s, 1)
    IN  /\ e > 1
        /\ e - 1 <= 7
        /\ \/ AtEnd(s, e)
           \/ s[e] = "." /\ e < Len(s) /\ AtEnd(s, digit1(s, e + 1))
BlockOf(s) == RunValue(s, 1)
BlockFraction(s) == SubSeq(s, digit1(s, 1) + 1, Len(s))

\* One more second when the block's fraction rounds up to a whole second.
BlockCarry(s, p) ==
    IF ~AtEnd(s, digit1(s, 1)) /\ RoundHalfUp(BlockFraction(s), p) = 1000000 THEN 1 ELSE 0

\* The hour of hour:minute:second once a carried second has moved up.
CarriedHour(h, m, sc, c) ==
    h + (IF c = 1 /\ m + (IF sc + 1 >= 60 THEN 1 ELSE 0) >= 60 THEN 1 ELSE 0)

\* D, whitespace, H, then nothing, ':' M, or ':' M ':' S.
DayHourAt(s) == multispace0(s, digit1(s, 1))
DayMinuteAt(s) == digit1(s, DayHourAt(s)) + 1
DaySecondAt(s) == digit1(s, DayMinuteAt(s)) + 1
DayForm(s) ==
    /\ digit1(s, 1) > 1
    /\ DayHourAt(s) > digit1(s, 1)
    /\ digit1(s, DayHourAt(s)) > DayHourAt(s)
    /\ \/ AtEnd(s, DayMinuteAt(s) - 1)
       \/ /\ s[DayMinuteAt(s) - 1] = ":"
          /\ digit1(s, DayMinuteAt(s)) > DayMinuteAt(s)
          /\ \/ AtEnd(s, DaySecondAt(s) - 1)
             \/ /\ s[DaySecondAt(s) - 1] = ":"
                /\ digit1(s, DaySecondAt(s)) > DaySecondAt(s)
                /\ AtEnd(s, digit1(s, DaySecondAt(s)))
DayD(s) == RunValue(s, 1)
DayH(s) == RunValue(s, DayHourAt(s))
DayM(s) == IF AtEnd(s, DayMinuteAt(s) - 1) THEN 0 ELSE RunValue(s, DayMinuteAt(s))
DayS(s) ==
    IF AtEnd(s, DayMinuteAt(s) - 1) \/ AtEnd(s, DaySecondAt(s) - 1) THEN 0
    ELSE RunValue(s, DaySecondAt(s))

\* No digit run of the literal is longer than 7 digits.
RunsWithin7(s) == \A i \in 1..Len(s) : RunStartsAt(s, i) => digit1(s, i) - i <= 7

\* What C7 says of a block n[.f]: the fields of the packed block, and an error
\* exactly when the hour, the carry of rounding taken in, exceeds 838.
BlockReading(s, p, r) ==
    LET n == BlockOf(s)
        h == n \div 10000
        m == (n \div 100) % 100
        sc == n % 100
        c == BlockCarry(s, p)
    IN  /\ r.ok <=> CarriedHour(h, m, sc, c) <= 838
        /\ r.ok => to_secs(r.val) = h * 3600 + m * 60 + sc + c
        /\ (r.ok /\ c = 0) => (r.val.hours = h /\ r.val.minutes = m /\ r.val.secs = sc)

\* What C7 says of D ws H[:M[:S]]: hour = H + 24 * D, minute = M, second = S,
\* and an error exactly when that hour exceeds 838.
DayReading(s, r) ==
    /\ r.ok <=> DayH(s) + 24 * DayD(s) <= 838
    /\ r.ok => /\ r.val.hours = DayH(s) + 24 * DayD(s)
               /\ r.val.minutes = DayM(s)
               /\ r.val.secs = DayS(s)

\* C7, as claimed: a single run n of at most 7 digits (with or without a
\* fraction) is read as the block n / 10000, (n / 100) % 100, n % 100; D ws
\* H[:M[:S]] with H <= 838 is read as hour = H + 24 * D, minute = M, second = S;
\* in both forms parse fails exactly when the resulting hour exceeds 838.
C7_DayBlockAsClaimed ==
    /\ (ParsedAt /\ BlockForm(call.input)) => BlockReading(call.input, call.fsp, ret)
    /\ (ParsedAt /\ DayForm(call.input) /\ DayH(call.input) <= 838)
          => DayReading(call.input, ret)

\* C7, amended: a single run n of at most 7 digits (with or without a
\* fraction) is read as the block n / 10000, (n / 100) % 100, n % 100; D ws
\* H[:M[:S]] with digit runs of at most 7 digits, H <= 838, M <= 59 and S <= 59
\* is read as hour = H + 24 * D, minute = M, second = S; in both forms parse
\* fails exactly when the resulting hour exceeds 838.
C7_DayBlock ==
    /\ (ParsedAt /\ BlockForm(call.input)) => BlockReading(call.input, call.fsp, ret)
    /\ (ParsedAt /\ DayForm(call.input) /\ DayH(call.input) <= 838
          /\ RunsWithin7(call.input) /\ DayM(call.input) <= 59 /\ DayS(call.input) <= 59)
          => DayReading(call.input, ret)

\* C7, reached: a day form with a day, a minute and a second, parsed into
\* hour = H + 24 * D.
C7_Witness ==
    /\ ParsedAt
    /\ DayForm(call.input)
    /\ RunsWithin7(call.input)
    /\ DayD(call.input) = 34 /\ DayH(call.input) = 22
    /\ DayM(call.input) = 59 /\ DayS(call.input) = 59
    /\ ret.ok
    /\ ret.val.hours = 838

(***************************************************************************)
(* Checked arithmetic: two operands are drawn, valid and not negative      *)
(* zero; they are added or subtracted, and a sum has its right operand     *)
(* subtracted again.                                                       *)
(***************************************************************************)
HourVals == (0..HourEdge) \cup ((MAX_HOURS - HourEdge)..MAX_HOURS)
MinuteVals == {0, MAX_MINUTES}
SecondVals == {0, MAX_SECONDS}
MicrosVals == {0, 1, 999000, MAX_MICROS}
FspVals == {0, 3, MAX_FSP}

Operands ==
    { d \in { new(n, h, m, sc, u, f) :
                n \in BOOLEAN, h \in HourVals, m \in MinuteVals, sc \in SecondVals,
                u \in MicrosVals, f \in FspVals } :
        ~(d.neg /\ ZeroMagnitude(d)) }

InitArith ==
    /\ pc = "start"
    /\ \E a \in Operands, b \in Operands : call = [fn |-> "arith", lhs |-> a, rhs |-> b]
    /\ ret = None
    /\ arg = 0
    /\ buf = <<>>
    /\ got = None

CheckedAdd ==
    /\ pc = "start"
    /\ call.fn = "arith"
    /\ ret' = checked_add(call.lhs, call.rhs)
    /\ pc' = "added"
    /\ UNCHANGED <<call, arg, buf, got>>

CheckedSub ==
    /\ pc = "start"
    /\ call.fn = "arith"
    /\ ret' = checked_sub(call.lhs, call.rhs)
    /\ pc' = "subtracted"
    /\ UNCHANGED <<call, arg, buf, got>>

SubBack ==
    /\ pc = "added"
    /\ ret.some
    /\ got' = checked_sub(ret.v, call.rhs)
    /\ pc' = "undone"
    /\ UNCHANGED <<call, ret, arg, buf>>

NextArith == CheckedAdd \/ CheckedSub \/ SubBack

SpecArith == InitArith /\ [][NextArith]_vars

(***************************************************************************)
(* Signed values, kept as whole seconds and microseconds apart: a sum of   *)
(* two values is the pair (sum of seconds, sum of microseconds).           *)
(***************************************************************************)
Sign(d) == IF d.neg THEN -1 ELSE 1
SignedSecs(d) == Sign(d) * to_secs(d)
SignedMicros(d) == Sign(d) * d.micros

\* The value secs * 10^6 + micros with the microseconds brought into
\* 0..999999: <<whole seconds rounded down, microseconds above them>>.
Normal(secs, micros) == <<secs + micros \div 1000000, micros % 1000000>>
ValueOf(d) == Normal(SignedSecs(d), SignedMicros(d))
SumOf(a, b) == Normal(SignedSecs(a) + SignedSecs(b), SignedMicros(a) + SignedMicros(b))
DifferenceOf(a, b) == Normal(SignedSecs(a) - SignedSecs(b), SignedMicros(a) - SignedMicros(b))

\* |v| < 839 hours, for a normal pair v.
LimitSecs == (MAX_HOURS + 1) * SECS_PER_HOUR
BelowLimit(v) == v[1] < LimitSecs /\ (v[1] > -LimitSecs \/ (v[1] = -LimitSecs /\ v[2] > 0))

SameValue(a, b) ==
    /\ a.neg = b.neg /\ a.hours = b.hours /\ a.minutes = b.minutes
    /\ a.secs = b.secs /\ a.micros = b.micros

MaxTime == from_nanos(I64(FALSE, MAX_TIME_IN_SECS, 0), 6).val

Positive(d) == ~d.neg /\ ~ZeroMagnitude(d)
Negative(d) == d.neg /\ ~ZeroMagnitude(d)

(***************************************************************************)
(* Properties of checked arithmetic                                        *)
(***************************************************************************)
\* C8: checked_add is exact signed addition: with v the sum of the signed values
\* of a and b, it returns Some(r) exactly when |v| < 839 hours, and then r has
\* the value v, fields in range, is non-negative when v = 0, and has
\* fsp = max(a.fsp, b.fsp); otherwise it returns None.
C8_CheckedAddExact ==
    pc = "added" =>
        LET v == SumOf(call.lhs, call.rhs)
        IN  /\ ret.some <=> BelowLimit(v)
            /\ ret.some =>
                  /\ ValueOf(ret.v) = v
                  /\ InRange(ret.v)
                  /\ (v = <<0, 0>>) => ~ret.v.neg
                  /\ ret.v.fsp = max(call.lhs.fsp, call.rhs.fsp)

\* C8, reached: a sum that carries through microseconds, seconds and minutes into the hours.
C8_Witness ==
    /\ pc = "added"
    /\ ret.some
    /\ ~call.lhs.neg /\ ~call.rhs.neg
    /\ call.lhs.micros = 999999 /\ call.rhs.micros = 1
    /\ call.lhs.secs = 59 /\ call.lhs.minutes = 59
    /\ ret.v.hours = call.lhs.hours + call.rhs.hours + 1
    /\ ret.v.fsp = 6 /\ call.lhs.fsp = 0

\* C9, as claimed: adding 838:59:59 to any strictly positive Duration returns
\* None; subtracting it from any strictly negative Duration returns None.
C9_MaxOverflowsAsClaimed ==
    /\ (pc = "added" /\ eq(call.rhs, MaxTime) /\ Positive(call.lhs)) => ~ret.some
    /\ (pc = "subtracted" /\ eq(call.rhs, MaxTime) /\ Negative(call.lhs)) => ~ret.some

\* C9, amended: adding 838:59:59 to a positive Duration returns None exactly when
\* that Duration is at least one second, and subtracting it from a negative
\* Duration returns None exactly when that Duration is at most minus one
\* second; a Duration nearer to zero gives 838:59:59 and its microseconds, of
\* its sign.
C9_MaxOverflows ==
    /\ (pc = "added" /\ eq(call.rhs, MaxTime) /\ Positive(call.lhs))
          => /\ ~ret.some <=> to_secs(call.lhs) >= 1
             /\ ret.some => (ValueOf(ret.v) = <<MAX_TIME_IN_SECS, call.lhs.micros>>)
    /\ (pc = "subtracted" /\ eq(call.rhs, MaxTime) /\ Negative(call.lhs))
          => /\ ~ret.some <=> to_secs(call.lhs) >= 1
             /\ ret.some => (ret.v.neg /\ ValueOf(abs(ret.v)) = <<MAX_TIME_IN_SECS, call.lhs.micros>>)

\* C9, reached: 838:59:59 subtracted from minus 59 seconds is None.
C9_Witness ==
    /\ pc = "subtracted"
    /\ eq(call.rhs, MaxTime)
    /\ Negative(call.lhs)
    /\ to_secs(call.lhs) = 59
    /\ ~ret.some

\* C10: subtraction inverts addition: when a.checked_add(b) is Some(s),
\* s.checked_sub(b) is Some(a') with the sign and fields of a; and checked_sub
\* of two non-negative operands is never None and is their exact difference,
\* borrowed through microseconds, seconds and minutes.
C10_SubInvertsAdd ==
    /\ pc = "undone" => (got.some /\ SameValue(got.v, call.lhs))
    /\ (pc = "subtracted" /\ ~call.lhs.neg /\ ~call.rhs.neg)
          => /\ ret.some
             /\ InRange(ret.v)
             /\ ValueOf(ret.v) = DifferenceOf(call.lhs, call.rhs)
             /\ ZeroMagnitude(ret.v) => ~ret.v.neg

\* C10, reached: a sum that carried at every field, and whose right operand, subtracted
\* again with a borrow at every field, leaves the left operand.
C10_Witness ==
    /\ pc = "undone"
    /\ got.some
    /\ SameValue(got.v, call.lhs)
    /\ ~call.lhs.neg /\ ~call.rhs.neg
    /\ call.lhs.micros = 999999 /\ call.lhs.secs = 59 /\ call.lhs.minutes = 59
    /\ call.rhs.micros = 1 /\ call.rhs.secs = 0 /\ call.rhs.minutes = 0
    /\ ret.v.micros = 0 /\ ret.v.secs = 0 /\ ret.v.minutes = 0

(***************************************************************************)
(* Raw words: a u64 is drawn as its bit-fields, from_bits reads it, and    *)
(* the Duration it returns is rounded, given the full precision, or        *)
(* formatted.                                                              *)
(***************************************************************************)
\* What format returns when it panics.
Panic == <<"panic">>

\* format: sign, hours, minutes and seconds in two digits at least, then the
\* fsp leading digits of the microseconds; TEN_POW[MICRO_WIDTH - fsp] is out of
\* usize and of the table when fsp > MICRO_WIDTH.
format(d, sep) ==
    LET head == (IF d.neg THEN MINUS ELSE <<>>)
                   \o Padded(d.hours, 2) \o sep \o Padded(d.minutes, 2)
                   \o sep \o Padded(d.secs, 2)
    IN  IF d.fsp = 0 THEN head
        ELSE IF d.fsp > MICRO_WIDTH THEN Panic
        ELSE head \o DOT \o Padded(d.micros \div TEN_POW(MICRO_WIDTH - d.fsp), d.fsp)

\* The fields of the words drawn: the ends of each field's range, the values
\* next to them, and the largest the field's bits hold.
WordHours == {0, MAX_HOURS - 1, MAX_HOURS, MAX_HOURS + 1, 16383}
WordMinutes == {0, MAX_MINUTES, MAX_MINUTES + 1, 255}
WordSecs == {0, MAX_SECONDS, MAX_SECONDS + 1, 255}
WordMicros ==
    {0, 4, 5, 123456, 499999, 500000, 949999, 950000, 999994, 999995,
     MAX_MICROS, MAX_MICROS + 1, 16777215}
WordFsps == (0..(MAX_FSP + 1)) \cup {255}

InitBits ==
    /\ pc = "start"
    /\ \E n \in BOOLEAN, r \in BOOLEAN, h \in WordHours, m \in WordMinutes,
          sc \in WordSecs, u \in WordMicros, f \in WordFsps :
          call = [fn |-> "from_bits",
                  word |-> [neg |-> n, reserved |-> r, hours |-> h, minutes |-> m,
                            secs |-> sc, micros |-> u, fsp |-> f]]
    /\ ret = Err
    /\ arg = 0
    /\ buf = <<>>
    /\ got = Err

FromBits ==
    /\ pc = "start"
    /\ call.fn = "from_bits"
    /\ ret' = from_bits(call.word)
    /\ pc' = "built"
    /\ UNCHANGED <<call, arg, buf, got>>

MaximizeFsp ==
    /\ pc = "built"
    /\ ret.ok
    /\ got' = Ok(maximize_fsp(ret.val))
    /\ pc' = "maximized"
    /\ UNCHANGED <<call, ret, arg, buf>>

Format ==
    /\ pc = "built"
    /\ ret.ok
    /\ buf' = format(ret.val, COLON)
    /\ pc' = "formatted"
    /\ UNCHANGED <<call, ret, arg, got>>

NextBits == FromBits \/ RoundFrac \/ MaximizeFsp \/ Format

SpecBits == InitBits /\ [][NextBits]_vars

(***************************************************************************)
(* Properties of rounding and of raw words                                 *)
(***************************************************************************)
\* The microseconds u of a Duration rounded half-up to p digits, 0..1000000:
\* floor((u + 5 * 10^(5 - p)) / 10^(6 - p)) * 10^(6 - p), which is u when p = 6
\* (below a precision byte above 6).  The whole seconds
\* are a multiple of 10^(6 - p) microseconds, so the magnitude M rounds to the
\* whole seconds and this.
NarrowedMicros(u, p) ==
    IF p = 6 THEN u ELSE ((u + 5 * (10 ^ (5 - p))) \div (10 ^ (6 - p))) * (10 ^ (6 - p))
NarrowedSecs(d, p) == to_secs(d) + NarrowedMicros(d.micros, p) \div 1000000

Narrowing ==
    /\ pc = "rounded"
    /\ InRange(ret.val)
    /\ arg >= 0
    /\ arg <= 6
    /\ arg < ret.val.fsp

Widening == pc = "rounded" /\ arg >= ret.val.fsp /\ arg <= 6

\* C12: widening is value-preserving: for any Duration d and precision p2 with
\* d.fsp <= p2 <= 6, round_frac(p2) is Ok with the sign, hours, minutes,
\* seconds and microseconds of d and fsp = p2.
C12_WideningKeepsValue ==
    Widening => (got.ok /\ SameValue(got.val, ret.val) /\ got.val.fsp = arg)

\* C12, reached: a Duration of 3 digits whose microseconds hold 6, widened to
\* its own precision.
C12_Witness ==
    /\ Widening
    /\ ret.val.fsp = 3 /\ arg = 3
    /\ ret.val.micros = 999995
    /\ got.ok /\ got.val.micros = 999995

\* The word v with the reserved bit cleared.
ReservedCleared(v) ==
    [neg |-> v.neg, reserved |-> FALSE, hours |-> v.hours, minutes |-> v.minutes,
     secs |-> v.secs, micros |-> v.micros, fsp |-> v.fsp]

\* C16: from_bits(w) is an error exactly when the hours field of w is above
\* 838, its minutes or seconds field above 59 or its microseconds field above
\* 999_999; otherwise it returns w with the reserved bit cleared and every
\* other bit unchanged.
C16_FromBitsValidates ==
    (pc = "built" /\ call.fn = "from_bits") =>
        /\ ~ret.ok <=> \/ call.word.hours > 838
                       \/ call.word.minutes > 59
                       \/ call.word.secs > 59
                       \/ call.word.micros > 999999
        /\ ret.ok => ret.val = ReservedCleared(call.word)

\* C16, reached: a negative word at the top of every range, the reserved bit
\* set and the precision byte 255, is returned with only the reserved bit
\* changed.
C16_Witness ==
    /\ pc = "built" /\ call.fn = "from_bits"
    /\ call.word.reserved /\ call.word.neg /\ call.word.fsp = 255
    /\ call.word.hours = 838 /\ call.word.minutes = 59 /\ call.word.secs = 59
    /\ call.word.micros = 999999
    /\ ret.ok /\ ~ret.val.reserved /\ ret.val.fsp = 255

(***************************************************************************)
(* Properties of to_nanos                                                  *)
(***************************************************************************)
\* Sign-then-scale: the sign of d on
\* (hours * 3600 + minutes * 60 + seconds) * 10^9 + microseconds * 1000.
SignThenScale(d) == I64(d.neg, to_secs(d), d.micros * 1000)
Negated(x) == I64(~x.neg, x.hi, x.lo)

\* C15, as claimed: for a negative Duration with non-zero microseconds,
\* to_nanos() differs from -(abs(d).to_nanos()), the sign-then-scale value
\* -((hours*3600 + minutes*60 + seconds) * 10^9 + microseconds * 1000).
C15_NanosAsymmetricAsClaimed ==
    (pc = "encoded" /\ ret.val.neg /\ ret.val.micros # 0)
        => /\ buf[1] # Negated(to_nanos(abs(ret.val)))
           /\ buf[1] # SignThenScale(ret.val)

\* C15, amended: to_nanos has no sign asymmetry: for every Duration d it is the
\* sign-then-scale value, and for a negative d it is -(abs(d).to_nanos()).
C15_NanosSignThenScale ==
    pc = "encoded" =>
        /\ buf[1] = SignThenScale(ret.val)
        /\ ret.val.neg => buf[1] = Negated(to_nanos(abs(ret.val)))

\* C15, reached: the nanoseconds of -00:00:00.123456 are -123_456_000.
C15_Witness ==
    /\ pc = "encoded"
    /\ ret.val.neg
    /\ to_secs(ret.val) = 0
    /\ ret.val.micros = 123456
    /\ buf[1] = [neg |-> TRUE, hi |-> 0, lo |-> 123456000]

(***************************************************************************)
(* Equality, hashing and ordering: two Durations are drawn, compared with  *)
(* eq, hashed, and compared with cmp.                                      *)
(***************************************************************************)
OrdHours == {0, 1, MAX_HOURS}

\* Durations with every field at an end of its range, negative zero included.
OrdOperands ==
    { new(n, h, m, sc, u, f) :
        n \in BOOLEAN, h \in OrdHours, m \in MinuteVals, sc \in SecondVals,
        u \in {0, 1, MAX_MICROS}, f \in {0, MAX_FSP} }

InitOrd ==
    /\ pc = "start"
    /\ \E a \in OrdOperands, b \in OrdOperands :
          call = [fn |-> "compare", lhs |-> a, rhs |-> b]
    /\ ret = Err
    /\ arg = 0
    /\ buf = <<>>
    /\ got = Err

Eq ==
    /\ pc = "start"
    /\ call.fn = "compare"
    /\ ret' = Ok(eq(call.lhs, call.rhs))
    /\ pc' = "eq"
    /\ UNCHANGED <<call, arg, buf, got>>

Hash ==
    /\ pc = "eq"
    /\ buf' = <<hash(call.lhs), hash(call.rhs)>>
    /\ pc' = "hashed"
    /\ UNCHANGED <<call, ret, arg, got>>

Cmp ==
    /\ pc = "hashed"
    /\ got' = Ok(cmp(call.lhs, call.rhs))
    /\ pc' = "compared"
    /\ UNCHANGED <<call, ret, arg, buf>>

NextOrd == Eq \/ Hash \/ Cmp

SpecOrd == InitOrd /\ [][NextOrd]_vars

(***************************************************************************)
(* Properties of equality, hashing and ordering                            *)
(***************************************************************************)
\* C13: equality and hashing exclude precision: two Durations are equal exactly
\* when their neg, hours, minutes, seconds and microseconds are identical,
\* whatever their fsp; equal Durations feed the hasher the same input; and cmp
\* is Equal exactly when eq is true.
C13_EqHashIgnoreFsp ==
    pc = "compared" =>
        /\ ret.val <=> SameValue(call.lhs, call.rhs)
        /\ ret.val => buf[1] = buf[2]
        /\ (got.val = "Equal") <=> ret.val

\* C13, reached: 838:59:59.999999 at precision 0 and at precision 6 are equal,
\* hash alike and compare Equal.
C13_Witness ==
    /\ pc = "compared"
    /\ call.lhs.fsp = 0 /\ call.rhs.fsp = 6
    /\ call.lhs.hours = 838 /\ call.lhs.micros = 999999 /\ call.lhs.neg
    /\ ret.val
    /\ buf[1] = buf[2]
    /\ got.val = "Equal"

\* The order of two normal pairs <<whole seconds, microseconds>>.
NumericOrder(x, y) ==
    IF x[1] < y[1] \/ (x[1] = y[1] /\ x[2] < y[2]) THEN "Less"
    ELSE IF x = y THEN "Equal"
    ELSE "Greater"

Comparable(d) == InRange(d) /\ ~(d.neg /\ ZeroMagnitude(d))

\* C14: ordering is the signed numeric order: for two Durations with all
\* fields in range and no negative zero, cmp is the comparison of their signed
\* total microseconds, independent of fsp; every negative value is less than
\* every non-negative one, and the order is total and transitive.
C14_OrderIsNumeric ==
    (pc = "compared" /\ Comparable(call.lhs) /\ Comparable(call.rhs)) =>
        /\ got.val = NumericOrder(ValueOf(call.lhs), ValueOf(call.rhs))
        /\ (call.lhs.neg /\ ~call.rhs.neg) => got.val = "Less"
        /\ cmp(call.rhs, call.lhs) = reverse(got.val)
        /\ \A c \in OrdOperands :
              (Comparable(c) /\ got.val = "Less" /\ cmp(call.rhs, c) = "Less")
                  => cmp(call.lhs, c) = "Less"

\* C14, reached: of two negative Durations the one of larger magnitude is the
\* lesser, whatever the precisions.
C14_Witness ==
    /\ pc = "compared"
    /\ call.lhs.neg /\ call.rhs.neg
    /\ call.lhs.hours = 838 /\ call.rhs.hours = 1
    /\ call.lhs.micros = 0 /\ call.rhs.micros = 999999
    /\ call.lhs.fsp = 6 /\ call.rhs.fsp = 0
    /\ got.val = "Less"

(***************************************************************************)
(* Every value-making call together: a constructor or from_bits, then      *)
(* round_frac, maximize_fsp, the codec or format on what it returned; or   *)
(* checked arithmetic on two operands.                                     *)
(***************************************************************************)
InitValues == Init \/ InitBits \/ InitArith

NextValues == Next \/ NextArith \/ FromBits \/ MaximizeFsp \/ Format

SpecValues == InitValues /\ [][NextValues]_vars

\* C17: every Duration a public construction path returns (parse, from_bits,
\* from_micros, from_nanos, from_millis, decode, round_frac, maximize_fsp, and
\* checked_add and checked_sub of such values) has fsp in 0..=6, so format
\* never takes the power of ten at index 6 - fsp with fsp > 6.
C17_FspInRange ==
    /\ (pc = "built" /\ ret.ok) => ret.val.fsp \in 0..MAX_FSP
    /\ (pc \in {"rounded", "maximized", "decoded"} /\ got.ok) => got.val.fsp \in 0..MAX_FSP
    /\ (pc \in {"added", "subtracted"} /\ ret.some) => ret.v.fsp \in 0..MAX_FSP
    /\ (pc = "undone" /\ got.some) => got.v.fsp \in 0..MAX_FSP
    /\ pc = "formatted" => buf # Panic

\* The microseconds of d hold no digit below its precision.
Aligned(d) == d.fsp <= MAX_FSP /\ d.micros % (10 ^ (6 - d.fsp)) = 0

\* The microseconds a formatted Duration of precision p shows.
ShownMicros(text, p) ==
    IF DotAt(text) = 0 THEN 0 ELSE DecimalValue(AfterDot(text)) * (10 ^ (6 - p))

Constructed == call.fn \in {"parse", "from_micros", "from_nanos", "from_millis"}

\* C18, as claimed: every Duration that parse, from_micros, from_nanos,
\* from_millis or round_frac returns, and that checked_add or checked_sub
\* returns for operands of that kind, has microseconds that are a multiple of
\* 10^(6 - fsp); so format, which shows microseconds / 10^(6 - fsp), shows every
\* stored digit.
C18_FractionMatchesFspAsClaimed ==
    /\ (pc = "built" /\ Constructed /\ ret.ok) => Aligned(ret.val)
    /\ (pc = "rounded" /\ got.ok) => Aligned(got.val)
    /\ (pc \in {"added", "subtracted"} /\ Aligned(call.lhs) /\ Aligned(call.rhs) /\ ret.some)
          => Aligned(ret.v)
    /\ (pc = "undone" /\ Aligned(call.lhs) /\ Aligned(call.rhs) /\ got.some)
          => Aligned(got.v)
    /\ (pc = "formatted" /\ Constructed) => ShownMicros(buf, ret.val.fsp) = ret.val.micros

\* C18, amended: every Duration that parse, from_micros, from_nanos or
\* from_millis returns has microseconds that are a multiple of 10^(6 - fsp), and
\* so has every Duration that round_frac, checked_add or checked_sub returns
\* for Durations that have; format shows every stored digit of such a
\* Duration.
C18_FractionMatchesFsp ==
    /\ (pc = "built" /\ Constructed /\ ret.ok) => Aligned(ret.val)
    /\ (pc = "rounded" /\ Aligned(ret.val) /\ got.ok) => Aligned(got.val)
    /\ (pc \in {"added", "subtracted"} /\ Aligned(call.lhs) /\ Aligned(call.rhs) /\ ret.some)
          => Aligned(ret.v)
    /\ (pc = "undone" /\ Aligned(call.lhs) /\ Aligned(call.rhs) /\ got.some)
          => Aligned(got.v)
    /\ (pc = "formatted" /\ Aligned(ret.val)) => ShownMicros(buf, ret.val.fsp) = ret.val.micros

\* C18, reached: 00:00:00.123456 narrowed to 3 digits holds 123000
\* microseconds.
C18_Witness ==
    /\ pc = "rounded"
    /\ Constructed
    /\ ret.val.micros = 123456 /\ ret.val.fsp = 6
    /\ arg = 3
    /\ got.ok
    /\ got.val.micros = 123000 /\ got.val.fsp = 3

====
